---------------------------- MODULE Spec2Model ----------------------------
(***************************************************************************)
(* A model of homework.py: the training classes (Training, Running,        *)
(* SportsWalking, Swimming), the InfoMessage report and the read_package   *)
(* factory.                                                                *)
(*                                                                         *)
(* Numbers.  Python computes in IEEE doubles; the model computes the same  *)
(* expressions, in the same order, in exact non-negative rationals         *)
(* (numerator and denominator are arbitrary-size naturals held as          *)
(* little-endian sequences of limbs, since TLC's integers are 32 bits      *)
(* wide).  The rounding error of a double (relative 2^-53 per operation)   *)
(* is not modelled; it is far below the 1e-3 tolerance of the properties   *)
(* checked.  All inputs of the model are non-negative integers.            *)
(*                                                                         *)
(* Exceptions.  Every method is an operator that returns a record          *)
(* [exc, val, self]: exc is "None" when the call returns val, otherwise    *)
(* the name of the exception raised; self is the receiver after the call.  *)
(***************************************************************************)
EXTENDS Integers, Sequences, FiniteSets, TLC

(***************************************************************************)
(* Evaluation.  TLC passes an operator's arguments unevaluated and         *)
(* evaluates them at every use; Strict1 and Strict2 apply F to arguments   *)
(* evaluated once.  They change nothing of what is computed.               *)
(***************************************************************************)
Strict1(F(_), a0) == CHOOSE r \in {F(a) : a \in {a0}} : TRUE
Strict2(F(_, _), a0, b0) == CHOOSE r \in {F(a, b) : a \in {a0}, b \in {b0}} : TRUE

(***************************************************************************)
(* Arbitrary-size naturals: <<l1, l2, l3, ...>> is l1 + l2*10000 +         *)
(* l3*10000^2 + ..., every limb in 0..9999 and the last one not 0; <<>> is *)
(* 0.  TLC stops with an error should a 32-bit intermediate overflow.      *)
(***************************************************************************)
QuoBits == 30

LimbLo(x) == x % 10000
LimbHi(x) == x \div 10000

(* limbs i.. of a, of any size, carried into 0..9999 with c carried in *)
RECURSIVE BCarryFrom(_, _, _)
BCarryFrom(a, i, c) ==
    IF i > Len(a)
    THEN IF c = 0 THEN <<>> ELSE <<LimbLo(c)>> \o BCarryFrom(a, i, LimbHi(c))
    ELSE CHOOSE r \in {<<LimbLo(s)>> \o BCarryFrom(a, i + 1, LimbHi(s)) :
                       s \in {a[i] + c}} : TRUE

BFromIntV(n) == IF n = 0 THEN <<>> ELSE BCarryFrom(<<n>>, 1, 0)
BFromInt(n) == Strict1(BFromIntV, n)

BAddV(a, b) ==
    LET n == IF Len(a) < Len(b) THEN Len(b) ELSE Len(a)
    IN  BCarryFrom([i \in 1..n |-> (IF i <= Len(a) THEN a[i] ELSE 0)
                                 + (IF i <= Len(b) THEN b[i] ELSE 0)], 1, 0)
BAdd(a, b) == Strict2(BAddV, a, b)

(* acc plus a * b[j] * 10000^(j-1) for every j from j on, limb by limb and *)
(* not carried                                                             *)
RECURSIVE BMulRows(_, _, _, _)
BMulRows(a, b, j, acc) ==
    IF j > Len(b) THEN acc
    ELSE CHOOSE r \in
            {BMulRows(a, b, j + 1, nxt) :
                nxt \in {[k \in 1..Len(acc) |->
                            acc[k] + (IF k >= j /\ k - j + 1 <= Len(a)
                                      THEN a[k - j + 1] * b[j] ELSE 0)]}} : TRUE

BMulV(a, b) ==
    IF a = <<>> \/ b = <<>> THEN <<>>
    ELSE IF b = <<1>> THEN a
    ELSE IF a = <<1>> THEN b
    ELSE LET zero == [k \in 1..(Len(a) + Len(b) - 1) |-> 0]
         IN  BCarryFrom(IF Len(a) < Len(b) THEN BMulRows(b, a, 1, zero)
                        ELSE BMulRows(a, b, 1, zero), 1, 0)
BMul(a, b) == Strict2(BMulV, a, b)

BLeqV(a, b) ==
    IF Len(a) # Len(b) THEN Len(a) < Len(b)
    ELSE LET diff == {i \in 1..Len(a) : a[i] # b[i]}
             top == CHOOSE i \in diff : \A j \in diff : j <= i
         IN  diff = {} \/ a[top] < b[top]
BLeq(a, b) == Strict2(BLeqV, a, b)

(* floor(a / b) for b # 0 and a quotient below 2^QuoBits, one bit at a     *)
(* time from the highest                                                   *)
BQuoV(a, b) ==
    LET bit(k) == 2 ^ (QuoBits - k)
        fits(q) == BLeq(BMul(BFromInt(q), b), a)
        quo[k \in 0..QuoBits] ==
            IF k = 0 THEN 0
            ELSE CHOOSE q \in {IF fits(acc + bit(k)) THEN acc + bit(k) ELSE acc :
                               acc \in {quo[k - 1]}} : TRUE
    IN  quo[QuoBits]
BQuo(a, b) == Strict2(BQuoV, a, b)

(***************************************************************************)
(* Non-negative rationals [n, d], d # 0, not reduced: compare with REq and *)
(* RLeq, never with =.                                                     *)
(***************************************************************************)
(* n and d without the low zero limbs they share: the same rational *)
RCutV(x) ==
    LET low(a) == CHOOSE i \in 0..Len(a) : /\ \A j \in 1..i : a[j] = 0
                                          /\ (i = Len(a) \/ a[i + 1] # 0)
        k == IF low(x.n) < low(x.d) THEN low(x.n) ELSE low(x.d)
    IN  IF x.n = <<>> THEN [n |-> <<>>, d |-> <<1>>]
        ELSE [n |-> SubSeq(x.n, k + 1, Len(x.n)), d |-> SubSeq(x.d, k + 1, Len(x.d))]
RCut(x) == Strict1(RCutV, x)

Rat(n, d) == [n |-> BFromInt(n), d |-> BFromInt(d)]
RInt(n) == Rat(n, 1)
RIsZero(x) == x.n = <<>>
RAddV(x, y) ==
    RCut([n |-> BAdd(BMul(x.n, y.d), BMul(y.n, x.d)), d |-> BMul(x.d, y.d)])
RAdd(x, y) == Strict2(RAddV, x, y)
RMulV(x, y) == RCut([n |-> BMul(x.n, y.n), d |-> BMul(x.d, y.d)])
RMul(x, y) == Strict2(RMulV, x, y)
RDivV(x, y) == RCut([n |-> BMul(x.n, y.d), d |-> BMul(x.d, y.n)])
RDiv(x, y) == Strict2(RDivV, x, y)
REqV(x, y) == BMul(x.n, y.d) = BMul(y.n, x.d)
REq(x, y) == Strict2(REqV, x, y)
RLeqV(x, y) == BLeq(BMul(x.n, y.d), BMul(y.n, x.d))
RLeq(x, y) == Strict2(RLeqV, x, y)
RNear(x, y, tol) == RLeq(x, RAdd(y, tol)) /\ RLeq(y, RAdd(x, tol))

(* x in thousandths, rounded to the nearest with ties to even: what        *)
(* round(x, 3) and the format {:.3f} produce                               *)
Round3V(x) ==
    LET q == BQuo(BMul(x.n, BFromInt(1000)), x.d)
        cmp(k) ==
            LET mid == BMul(BFromInt(2 * k + 1), x.d)
                dbl == BMul(x.n, BFromInt(2000))
            IN  IF mid = dbl THEN (IF k % 2 = 0 THEN k ELSE k + 1)
                ELSE IF BLeq(mid, dbl) THEN k + 1 ELSE k
    IN  Strict1(cmp, q)
Round3(x) == Strict1(Round3V, x)

(***************************************************************************)
(* Class attributes.  Decimal literals are the rationals they denote.      *)
(***************************************************************************)
M_IN_KM == 1000
MIN_IN_H == 60
CALORIES_MEAN_SPEED_MULTIPLIER == 18
CALORIES_MEAN_SPEED_SHIFT == Rat(179, 100)
CALORIES_WEIGHT_MULTIPLIER_1 == Rat(35, 1000)
CALORIES_WEIGHT_MULTIPLIER_2 == Rat(29, 1000)
KM_H_TO_M_S == Rat(Round3(RDiv(RInt(1000), RInt(3600))), 1000)
CM_TO_M == 100
CALORIES_SPEED_SHIFT == Rat(11, 10)
DOUBLER == 2

(* LEN_STEP were Swimming not to override it *)
LEN_STEP_NotOverridden(cls) == Rat(65, 100)

(* attribute lookup self.LEN_STEP: Swimming overrides Training's value *)
LEN_STEP(cls) == IF cls = "Swimming" THEN Rat(138, 100) ELSE Rat(65, 100)

(***************************************************************************)
(* Outcomes of a call.                                                     *)
(***************************************************************************)
Return(self, v) == [exc |-> "None", val |-> v, self |-> self]
Raise(self, e, about) == [exc |-> e, about |-> about, self |-> self]
(* the same for a function or a constructor, which has no receiver *)
Made(v) == [exc |-> "None", val |-> v]
Fail(e, about) == [exc |-> e, about |-> about]

(***************************************************************************)
(* Constructors.  A call of a class binds data positionally to __init__'s *)
(* parameters, none of which has a default: any other number of arguments  *)
(* is a TypeError raised before __init__ runs.                             *)
(***************************************************************************)
Arity(cls) ==
    CASE cls = "SportsWalking" -> 4
      [] cls = "Swimming" -> 5
      [] OTHER -> 3

Training_init(cls, action, duration, weight) ==
    [cls |-> cls, action |-> action, duration_h |-> duration, weight_kg |-> weight]

SportsWalking_init(action, duration, weight, height) ==
    [cls |-> "SportsWalking", action |-> action, duration_h |-> duration,
     weight_kg |-> weight, height_cm |-> height]

Swimming_init(action, duration, weight, length_pool, count_pool) ==
    [cls |-> "Swimming", action |-> action, duration_h |-> duration,
     weight_kg |-> weight, length_pool |-> length_pool, count_pool |-> count_pool]

(* Construct were arguments beyond the parameters dropped *)
Construct_DropsExtra(cls, data) ==
    IF Len(data) < Arity(cls) THEN Fail("TypeError", cls)
    ELSE CASE cls = "SportsWalking" ->
                Made(SportsWalking_init(data[1], data[2], data[3], data[4]))
           [] cls = "Swimming" ->
                Made(Swimming_init(data[1], data[2], data[3], data[4], data[5]))
           [] OTHER ->
                Made(Training_init(cls, data[1], data[2], data[3]))

Construct(cls, data) ==
    IF Len(data) # Arity(cls) THEN Fail("TypeError", cls)
    ELSE CASE cls = "SportsWalking" ->
                Made(SportsWalking_init(data[1], data[2], data[3], data[4]))
           [] cls = "Swimming" ->
                Made(Swimming_init(data[1], data[2], data[3], data[4], data[5]))
           [] OTHER ->
                Made(Training_init(cls, data[1], data[2], data[3]))

(***************************************************************************)
(* Methods.  Then(r, F) continues with F(r) when the call with outcome r   *)
(* returned, and is r itself, the exception propagating unchanged, when it *)
(* raised: no method has a try statement.                                  *)
(***************************************************************************)
Then(r0, F(_)) == CHOOSE out \in {IF r.exc # "None" THEN r ELSE F(r) : r \in {r0}} : TRUE

(* get_distance were it to use up the actions it counts *)
Training_get_distance_ConsumesAction(self) ==
    Return([self EXCEPT !.action = 0],
           RDiv(RMul(RInt(self.action), LEN_STEP(self.cls)), RInt(M_IN_KM)))

Training_get_distance(self) ==
    Return(self, RDiv(RMul(RInt(self.action), LEN_STEP(self.cls)), RInt(M_IN_KM)))

get_distance(self) == Training_get_distance(self)

(* get_mean_speed were a zero duration answered with speed 0 *)
Training_get_mean_speed_ZeroGuarded(self) ==
    Then(get_distance(self), LAMBDA dist :
        IF self.duration_h = 0
        THEN Return(dist.self, RInt(0))
        ELSE Return(dist.self, RDiv(dist.val, RInt(self.duration_h))))

Training_get_mean_speed(self) ==
    Then(get_distance(self), LAMBDA dist :
        IF self.duration_h = 0
        THEN Raise(dist.self, "ZeroDivisionError", "get_mean_speed")
        ELSE Return(dist.self, RDiv(dist.val, RInt(self.duration_h))))

(* Swimming were it to inherit get_mean_speed *)
Swimming_get_mean_speed_Inherited(self) == Training_get_mean_speed(self)

Swimming_get_mean_speed(self) ==
    IF self.duration_h = 0
    THEN Raise(self, "ZeroDivisionError", "get_mean_speed")
    ELSE Return(self, RDiv(RDiv(RMul(RInt(self.length_pool), RInt(self.count_pool)),
                                RInt(M_IN_KM)),
                           RInt(self.duration_h)))

get_mean_speed(self) ==
    IF self.cls = "Swimming" THEN Swimming_get_mean_speed(self)
    ELSE Training_get_mean_speed(self)

(* the base get_spent_calories were it to return 0 *)
Training_get_spent_calories_ReturnsZero(self) == Return(self, RInt(0))

Training_get_spent_calories(self) ==
    Raise(self, "NotImplementedError", self.cls)

(* Running's calories were the shift left out *)
Running_get_spent_calories_NoShift(self) ==
    Then(get_mean_speed(self), LAMBDA speed :
        Return(speed.self,
            RMul(RMul(RDiv(RMul(RMul(RInt(CALORIES_MEAN_SPEED_MULTIPLIER), speed.val),
                                RInt(self.weight_kg)),
                           RInt(M_IN_KM)),
                      RInt(self.duration_h)),
                 RInt(MIN_IN_H))))

Running_get_spent_calories(self) ==
    Then(get_mean_speed(self), LAMBDA speed :
        Return(speed.self,
            RMul(RMul(RDiv(RMul(RAdd(RMul(RInt(CALORIES_MEAN_SPEED_MULTIPLIER),
                                          speed.val),
                                     CALORIES_MEAN_SPEED_SHIFT),
                                RInt(self.weight_kg)),
                           RInt(M_IN_KM)),
                      RInt(self.duration_h)),
                 RInt(MIN_IN_H))))

(* speed_in_m ** 2 is the product of speed_in_m with itself *)
Square(x) == Strict2(RMulV, x, x)

(* SportsWalking's calories were the speed in m/s not squared *)
SportsWalking_get_spent_calories_NotSquared(self) ==
    Then(get_mean_speed(self), LAMBDA speed :
        IF self.height_cm = 0
        THEN Raise(speed.self, "ZeroDivisionError", "get_spent_calories")
        ELSE Return(speed.self,
            RMul(RMul(RAdd(RMul(CALORIES_WEIGHT_MULTIPLIER_1, RInt(self.weight_kg)),
                           RMul(RMul(RDiv(RMul(speed.val, KM_H_TO_M_S),
                                          RDiv(RInt(self.height_cm), RInt(CM_TO_M))),
                                     CALORIES_WEIGHT_MULTIPLIER_2),
                                RInt(self.weight_kg))),
                      RInt(self.duration_h)),
                 RInt(MIN_IN_H))))

SportsWalking_get_spent_calories(self) ==
    Then(get_mean_speed(self), LAMBDA speed :
        IF self.height_cm = 0
        THEN Raise(speed.self, "ZeroDivisionError", "get_spent_calories")
        ELSE Return(speed.self,
            RMul(RMul(RAdd(RMul(CALORIES_WEIGHT_MULTIPLIER_1, RInt(self.weight_kg)),
                           RMul(RMul(RDiv(Square(RMul(speed.val, KM_H_TO_M_S)),
                                          RDiv(RInt(self.height_cm), RInt(CM_TO_M))),
                                     CALORIES_WEIGHT_MULTIPLIER_2),
                                RInt(self.weight_kg))),
                      RInt(self.duration_h)),
                 RInt(MIN_IN_H))))

(* Swimming's calories were the sum not doubled *)
Swimming_get_spent_calories_NotDoubled(self) ==
    Then(get_mean_speed(self), LAMBDA speed :
        Return(speed.self,
            RMul(RMul(RAdd(speed.val, CALORIES_SPEED_SHIFT), RInt(self.weight_kg)),
                 RInt(self.duration_h))))

Swimming_get_spent_calories(self) ==
    Then(get_mean_speed(self), LAMBDA speed :
        Return(speed.self,
            RMul(RMul(RMul(RAdd(speed.val, CALORIES_SPEED_SHIFT), RInt(DOUBLER)),
                      RInt(self.weight_kg)),
                 RInt(self.duration_h))))

get_spent_calories(self) ==
    CASE self.cls = "Running" -> Running_get_spent_calories(self)
      [] self.cls = "SportsWalking" -> SportsWalking_get_spent_calories(self)
      [] self.cls = "Swimming" -> Swimming_get_spent_calories(self)
      [] OTHER -> Training_get_spent_calories(self)

InfoMessage(training_type, duration, distance, speed, calories) ==
    [training_type |-> training_type, duration |-> duration, distance |-> distance,
     speed |-> speed, calories |-> calories]

(* the arguments of InfoMessage(...) are evaluated left to right: the first *)
(* call that raises ends show_training_info                                 *)
show_training_info(self) ==
    Then(get_distance(self), LAMBDA dist :
    Then(get_mean_speed(dist.self), LAMBDA speed :
    Then(get_spent_calories(speed.self), LAMBDA cal :
        Return(cal.self,
               InfoMessage(self.cls, self.duration_h, dist.val, speed.val, cal.val)))))

(* the five fields in the template's order; the template's fixed text      *)
(* between them is constant.  Each number is formatted {:.3f}, given here  *)
(* in thousandths.                                                         *)
get_message(self) ==
    Return(self, <<self.training_type,
                   Round3(RInt(self.duration)),
                   Round3(self.distance),
                   Round3(self.speed),
                   Round3(self.calories)>>)

workouts(workout_type) ==
    CASE workout_type = "SWM" -> "Swimming"
      [] workout_type = "RUN" -> "Running"
      [] workout_type = "WLK" -> "SportsWalking"

workouts_keys == {"SWM", "RUN", "WLK"}

(* read_package were an unknown type taken for a run *)
read_package_DefaultsToRunning(workout_type, data) ==
    IF workout_type \notin workouts_keys
    THEN Construct("Running", data)
    ELSE Construct(workouts(workout_type), data)

read_package(workout_type, data) ==
    IF workout_type \notin workouts_keys
    THEN Fail("ValueError", workout_type)
    ELSE Construct(workouts(workout_type), data)

(***************************************************************************)
(* The callers' inputs.                                                    *)
(***************************************************************************)
MaxArgs == 6
MaxSessions == 2
MaxReports == 1

WorkoutTypes == workouts_keys \cup {"XYZ"}

(* the values tried at each position of data: action, duration, weight,    *)
(* height or length_pool, count_pool, and anything beyond                  *)
ParamVals(i) ==
    CASE i = 1 -> {720, 9000, 15000}
      [] i = 2 -> {0, 1, 2}
      [] i = 3 -> {75, 80}
      [] i = 4 -> {0, 25, 180}
      [] i = 5 -> {40}
      [] OTHER -> {1}

RECURSIVE DataOfLen(_)
DataOfLen(n) ==
    IF n = 0 THEN {<<>>}
    ELSE {Append(d, v) : d \in DataOfLen(n - 1), v \in ParamVals(n)}

DataLists == UNION {DataOfLen(n) : n \in 0..MaxArgs}

(* the packages of the __main__ block *)
packages ==
    { <<"SWM", <<720, 1, 80, 25, 40>>>>,
      <<"RUN", <<15000, 1, 75>>>>,
      <<"WLK", <<9000, 1, 75, 180>>>> }

(***************************************************************************)
(* State.  sessions: the Training objects the caller holds; reports: the   *)
(* InfoMessage objects it holds; ret: the last call: its name, its         *)
(* arguments (for a method its receiver as it was before the call, and at, *)
(* the receiver's place among the caller's objects) and its outcome.       *)
(*                                                                         *)
(* Two callers.  The driver (keep = FALSE) is the __main__ block: it holds *)
(* one training and one info at a time, and catches nothing, so the first  *)
(* exception ends the process and its objects with it.  The keeping caller *)
(* (keep = TRUE) keeps the objects it is given while it holds fewer than   *)
(* MaxSessions sessions and MaxReports reports, catches the exceptions and *)
(* goes on.                                                                *)
(***************************************************************************)
VARIABLES sessions, reports, ret
vars == <<sessions, reports, ret>>

Outcome(op, at, arg, r) ==
    IF r.exc = "None"
    THEN [op |-> op, at |-> at, arg |-> arg, exc |-> "None", val |-> r.val]
    ELSE [op |-> op, at |-> at, arg |-> arg, exc |-> r.exc, about |-> r.about]

Init ==
    /\ sessions = <<>>
    /\ reports = <<>>
    /\ ret = [op |-> "start", at |-> 0, arg |-> <<>>, exc |-> "None"]

Alive(keep) == keep \/ ret.exc = "None"

(* the caller's objects objs after a call with outcome r *)
After(keep, r, objs) == IF keep \/ r.exc = "None" THEN objs ELSE <<>>

(* the caller's objects once it is given new *)
Bind(keep, objs, new, cap) ==
    IF ~keep THEN <<new>>
    ELSE IF Len(objs) < cap THEN Append(objs, new)
    ELSE objs

(* training = <a constructor call with outcome r0> *)
Create(keep, op, arg, r0) ==
    \E r \in {r0} :
        /\ Alive(keep)
        /\ sessions' = IF r.exc = "None" THEN Bind(keep, sessions, r.val, MaxSessions)
                       ELSE After(keep, r, sessions)
        /\ reports' = IF keep THEN reports ELSE <<>>
        /\ ret' = Outcome(op, 0, arg, r)

ReadPackage(keep, workout_type, data) ==
    Create(keep, "read_package", <<workout_type, data>>, read_package(workout_type, data))

NewTraining(keep, data) ==
    Create(keep, "Training", <<data>>, Construct("Training", data))

(* a method call on sessions[i] whose value the caller does not keep *)
Query(keep, i, op, r0) ==
    \E r \in {r0} :
        /\ Alive(keep)
        /\ sessions' = After(keep, r, [sessions EXCEPT ![i] = r.self])
        /\ reports' = After(keep, r, reports)
        /\ ret' = Outcome(op, i, sessions[i], r)

GetDistance(keep, i) == Query(keep, i, "get_distance", get_distance(sessions[i]))

GetMeanSpeed(keep, i) == Query(keep, i, "get_mean_speed", get_mean_speed(sessions[i]))

GetSpentCalories(keep, i) ==
    Query(keep, i, "get_spent_calories", get_spent_calories(sessions[i]))

(* info = training.show_training_info() *)
ShowTrainingInfo(keep, i) ==
    \E r \in {show_training_info(sessions[i])} :
        /\ Alive(keep)
        /\ sessions' = After(keep, r, [sessions EXCEPT ![i] = r.self])
        /\ reports' = IF r.exc = "None" THEN Bind(keep, reports, r.val, MaxReports)
                      ELSE After(keep, r, reports)
        /\ ret' = Outcome("show_training_info", i, sessions[i], r)

(* info.get_message() *)
GetMessage(keep, j) ==
    \E r \in {get_message(reports[j])} :
        /\ Alive(keep)
        /\ sessions' = After(keep, r, sessions)
        /\ reports' = After(keep, r, [reports EXCEPT ![j] = r.self])
        /\ ret' = Outcome("get_message", j, reports[j], r)

Calls(keep) ==
    \/ \E i \in DOMAIN sessions : GetDistance(keep, i)
    \/ \E i \in DOMAIN sessions : GetMeanSpeed(keep, i)
    \/ \E i \in DOMAIN sessions : GetSpentCalories(keep, i)
    \/ \E i \in DOMAIN sessions : ShowTrainingInfo(keep, i)
    \/ \E j \in DOMAIN reports : GetMessage(keep, j)

(* the driver, over every workout type and data list of the bounds *)
Next ==
    \/ \E workout_type \in WorkoutTypes, data \in DataLists :
            ReadPackage(FALSE, workout_type, data)
    \/ \E data \in DataLists : NewTraining(FALSE, data)
    \/ Calls(FALSE)

Spec == Init /\ [][Next]_vars

(* the keeping caller, over two packages of the __main__ block, one of     *)
(* them with a zero duration too, and an unknown workout type              *)
KeptInputs ==
    {p \in packages : p[1] \in {"SWM", "RUN"}}
        \cup { <<"RUN", <<15000, 0, 75>>>>, <<"XYZ", <<15000, 1, 75>>>> }

NextKeep ==
    \/ \E p \in KeptInputs : ReadPackage(TRUE, p[1], p[2])
    \/ Calls(TRUE)

SpecKeep == Init /\ [][NextKeep]_vars

(***************************************************************************)
(* The properties checked.  Tol is the tolerance 1e-3 of the scenarios.    *)
(***************************************************************************)
Tol == Rat(1, 1000)
Returned == ret.exc = "None" /\ "val" \in DOMAIN ret
RaisedOnly(e) == ret.exc = e /\ "val" \notin DOMAIN ret

(* the constructor parameters of a session, in order *)
FieldsOf(s) ==
    <<s.action, s.duration_h, s.weight_kg>> \o
    (CASE s.cls = "SportsWalking" -> <<s.height_cm>>
       [] s.cls = "Swimming" -> <<s.length_pool, s.count_pool>>
       [] OTHER -> <<>>)

(* C1: read_package with a workout type other than SWM, RUN, WLK raises    *)
(* ValueError whatever the data and returns no session; with SWM, RUN or   *)
(* WLK and data of the class's arity it returns a Swimming, a Running or a *)
(* SportsWalking session, which is the one the caller then holds.          *)
C1_ReadPackageDispatch ==
    ret.op = "read_package" =>
        LET workout_type == ret.arg[1]
            n == Len(ret.arg[2])
        IN  /\ workout_type \notin {"SWM", "RUN", "WLK"} =>
                RaisedOnly("ValueError") /\ sessions = <<>>
            /\ workout_type = "SWM" /\ n = 5 =>
                Returned /\ ret.val.cls = "Swimming" /\ sessions = <<ret.val>>
            /\ workout_type = "RUN" /\ n = 3 =>
                Returned /\ ret.val.cls = "Running" /\ sessions = <<ret.val>>
            /\ workout_type = "WLK" /\ n = 4 =>
                Returned /\ ret.val.cls = "SportsWalking" /\ sessions = <<ret.val>>

C1_Witness ==
    /\ ret.op = "read_package"
    /\ ret.arg[1] = "XYZ"
    /\ Len(ret.arg[2]) = 3
    /\ RaisedOnly("ValueError")

(* C2: read_package with SWM, RUN or WLK and data whose length is not the  *)
(* class's arity (5, 3, 4), shorter or longer, raises TypeError and        *)
(* returns no session; a session it returns holds exactly the data, in     *)
(* order, nothing cut and nothing added.                                   *)
C2_ArityMismatchRaises ==
    ret.op = "read_package" /\ ret.arg[1] \in {"SWM", "RUN", "WLK"} =>
        LET workout_type == ret.arg[1]
            data == ret.arg[2]
            arity == CASE workout_type = "RUN" -> 3
                       [] workout_type = "WLK" -> 4
                       [] workout_type = "SWM" -> 5
        IN  /\ Len(data) # arity => RaisedOnly("TypeError") /\ sessions = <<>>
            /\ Len(data) = arity => Returned /\ FieldsOf(ret.val) = data

C2_Witness ==
    /\ ret.op = "read_package"
    /\ ret.arg[1] = "RUN"
    /\ Len(ret.arg[2]) = 4
    /\ RaisedOnly("TypeError")

(* C3 as stated: get_spent_calories on a Training raises                   *)
(* NotImplementedError naming the class and returns nothing,               *)
(* show_training_info on it raises the same error and gives no report, and *)
(* on a Running, SportsWalking or Swimming both return a value.            *)
C3_Original ==
    /\ ret.op \in {"get_spent_calories", "show_training_info"}
       /\ ret.arg.cls = "Training" =>
            /\ RaisedOnly("NotImplementedError")
            /\ ret.about = "Training"
    /\ ret.op \in {"get_spent_calories", "show_training_info"}
       /\ ret.arg.cls \in {"Running", "SportsWalking", "Swimming"} =>
            Returned

(* C3 amended: get_spent_calories on a Training always raises              *)
(* NotImplementedError naming the class and returns nothing;               *)
(* show_training_info on it gives no report and raises that error when     *)
(* duration_h # 0, and ZeroDivisionError (from get_mean_speed, called      *)
(* first) when duration_h = 0.  On a Running, SportsWalking or Swimming    *)
(* neither call ever raises NotImplementedError, and both return a value   *)
(* when duration_h # 0 and, for SportsWalking, height_cm # 0.              *)
C3_BaseCaloriesNotImplemented ==
    /\ ret.op = "get_spent_calories" /\ ret.arg.cls = "Training" =>
            /\ RaisedOnly("NotImplementedError")
            /\ ret.about = "Training"
    /\ ret.op = "show_training_info" /\ ret.arg.cls = "Training" =>
            /\ reports = <<>>
            /\ IF ret.arg.duration_h = 0 THEN RaisedOnly("ZeroDivisionError")
               ELSE RaisedOnly("NotImplementedError") /\ ret.about = "Training"
    /\ ret.op \in {"get_spent_calories", "show_training_info"}
       /\ ret.arg.cls \in {"Running", "SportsWalking", "Swimming"} =>
            /\ ret.exc # "NotImplementedError"
            /\ ret.arg.duration_h # 0
               /\ (ret.arg.cls = "SportsWalking" => ret.arg.height_cm # 0) =>
                    Returned

C3_Witness ==
    /\ ret.op = "show_training_info"
    /\ ret.arg.cls = "Training"
    /\ ret.arg.duration_h # 0
    /\ RaisedOnly("NotImplementedError")

(* C4: get_mean_speed of a Swimming with duration_h # 0 is                 *)
(* length_pool * count_pool / 1000 / duration_h, and neither it nor        *)
(* get_spent_calories changes when only action changes.                    *)
C4_SwimmingSpeedFromPool ==
    /\ ret.op \in {"get_mean_speed", "get_spent_calories"}
    /\ ret.arg.cls = "Swimming"
    /\ ret.arg.duration_h # 0
    =>
        LET s == ret.arg
        IN  /\ ret.op = "get_mean_speed" =>
                /\ Returned
                /\ REq(ret.val, Rat(s.length_pool * s.count_pool, 1000 * s.duration_h))
                /\ \A a \in ParamVals(1) :
                      REq(get_mean_speed([s EXCEPT !.action = a]).val, ret.val)
            /\ ret.op = "get_spent_calories" =>
                /\ Returned
                /\ \A a \in ParamVals(1) :
                      REq(get_spent_calories([s EXCEPT !.action = a]).val, ret.val)

C4_Witness ==
    /\ ret.op = "get_spent_calories"
    /\ ret.arg.cls = "Swimming"
    /\ ret.arg.duration_h = 2
    /\ ret.arg.action = 720
    /\ Returned
    /\ REq(get_spent_calories([ret.arg EXCEPT !.action = 15000]).val, ret.val)
(* C5: get_distance is action * d / 1000 with d = 1.38 for a Swimming and  *)
(* 0.65 for every other class; for a Swimming it does not change with      *)
(* length_pool and count_pool; get_mean_speed of a Running or a            *)
(* SportsWalking with duration_h # 0 is that distance / duration_h.        *)
C5_DistanceFromAction ==
    /\ ret.op = "get_distance" =>
        LET s == ret.arg
        IN  /\ Returned
            /\ REq(ret.val,
                   Rat(s.action * (IF s.cls = "Swimming" THEN 138 ELSE 65), 100 * 1000))
            /\ s.cls = "Swimming" =>
                \A l \in ParamVals(4), c \in ParamVals(5) :
                    REq(get_distance([s EXCEPT !.length_pool = l, !.count_pool = c]).val,
                        ret.val)
    /\ ret.op = "get_mean_speed"
       /\ ret.arg.cls \in {"Running", "SportsWalking"}
       /\ ret.arg.duration_h # 0 =>
            /\ Returned
            /\ REq(ret.val, Rat(ret.arg.action * 65, 100 * 1000 * ret.arg.duration_h))

(* a Swimming whose mean speed is not its distance / duration_h *)
C5_Witness ==
    /\ ret.op = "get_mean_speed"
    /\ ret.arg.cls = "Swimming"
    /\ Returned
    /\ ~REq(ret.val, Rat(ret.arg.action * 138, 100 * 1000 * ret.arg.duration_h))

IsPackage(s, cls, data) == s.cls = cls /\ FieldsOf(s) = data

(* C6 as stated: the report of SWM [720, 1, 80, 25, 40] has distance       *)
(* 0.468, speed 1.0 and calories 336.0, each within 1e-3.                  *)
C6_Original ==
    ret.op = "show_training_info"
    /\ IsPackage(ret.arg, "Swimming", <<720, 1, 80, 25, 40>>) =>
        /\ Returned
        /\ RNear(ret.val.distance, Rat(468, 1000), Tol)
        /\ RNear(ret.val.speed, RInt(1), Tol)
        /\ RNear(ret.val.calories, RInt(336), Tol)

(* C6 amended: the report of SWM [720, 1, 80, 25, 40] has distance 0.9936  *)
(* (720 * 1.38 / 1000), speed 1.0 and calories 336.0, each within 1e-3.    *)
C6_SwimmingScenario ==
    ret.op = "show_training_info"
    /\ IsPackage(ret.arg, "Swimming", <<720, 1, 80, 25, 40>>) =>
        /\ Returned
        /\ ret.val.training_type = "Swimming"
        /\ RNear(ret.val.distance, Rat(9936, 10000), Tol)
        /\ RNear(ret.val.speed, RInt(1), Tol)
        /\ RNear(ret.val.calories, RInt(336), Tol)

C6_Witness ==
    /\ ret.op = "show_training_info"
    /\ IsPackage(ret.arg, "Swimming", <<720, 1, 80, 25, 40>>)
    /\ Returned
    /\ reports = <<ret.val>>

(* C7 as stated: the report of RUN [15000, 1, 75] has distance 9.75, speed *)
(* 9.75 and calories 726.82, each within 1e-3.                             *)
C7_Original ==
    ret.op = "show_training_info"
    /\ IsPackage(ret.arg, "Running", <<15000, 1, 75>>) =>
        /\ Returned
        /\ RNear(ret.val.distance, Rat(975, 100), Tol)
        /\ RNear(ret.val.speed, Rat(975, 100), Tol)
        /\ RNear(ret.val.calories, Rat(72682, 100), Tol)

(* C7 amended: the report of RUN [15000, 1, 75] has distance 9.75, speed   *)
(* 9.75 and calories 797.805 = (18 * 9.75 + 1.79) * 75 / 1000 * 1 * 60,    *)
(* each within 1e-3.                                                       *)
C7_RunningScenario ==
    ret.op = "show_training_info"
    /\ IsPackage(ret.arg, "Running", <<15000, 1, 75>>) =>
        /\ Returned
        /\ ret.val.training_type = "Running"
        /\ RNear(ret.val.distance, Rat(975, 100), Tol)
        /\ RNear(ret.val.speed, Rat(975, 100), Tol)
        /\ RNear(ret.val.calories, Rat(797805, 1000), Tol)

C7_Witness ==
    /\ ret.op = "show_training_info"
    /\ IsPackage(ret.arg, "Running", <<15000, 1, 75>>)
    /\ Returned
    /\ reports = <<ret.val>>

(* C8 as stated: the report of WLK [9000, 1, 75, 180] has distance 5.85,   *)
(* speed 5.85 and calories of about 163.0 (here: within 1 of 163).         *)
C8_Original ==
    ret.op = "show_training_info"
    /\ IsPackage(ret.arg, "SportsWalking", <<9000, 1, 75, 180>>) =>
        /\ Returned
        /\ RNear(ret.val.distance, Rat(585, 100), Tol)
        /\ RNear(ret.val.speed, Rat(585, 100), Tol)
        /\ RNear(ret.val.calories, RInt(163), RInt(1))

(* C8 amended: the report of WLK [9000, 1, 75, 180] has distance 5.85,     *)
(* speed 5.85 and calories 349.252 =                                       *)
(* (0.035 * 75 + (5.85 * 0.278)^2 / 1.8 * 0.029 * 75) * 1 * 60, each       *)
(* within 1e-3.                                                            *)
C8_WalkingScenario ==
    ret.op = "show_training_info"
    /\ IsPackage(ret.arg, "SportsWalking", <<9000, 1, 75, 180>>) =>
        /\ Returned
        /\ ret.val.training_type = "SportsWalking"
        /\ RNear(ret.val.distance, Rat(585, 100), Tol)
        /\ RNear(ret.val.speed, Rat(585, 100), Tol)
        /\ RNear(ret.val.calories, Rat(349252, 1000), Tol)

C8_Witness ==
    /\ ret.op = "show_training_info"
    /\ IsPackage(ret.arg, "SportsWalking", <<9000, 1, 75, 180>>)
    /\ Returned
    /\ reports = <<ret.val>>

(* C9: a session of any class is constructed with duration 0 as with any   *)
(* other; its get_distance returns; its get_mean_speed raises              *)
(* ZeroDivisionError and returns nothing; its show_training_info raises    *)
(* the same ZeroDivisionError and gives no report.                         *)
C9_ZeroDuration ==
    /\ ret.op = "read_package"
       /\ <<ret.arg[1], Len(ret.arg[2])>> \in {<<"RUN", 3>>, <<"WLK", 4>>, <<"SWM", 5>>}
       /\ ret.arg[2][2] = 0 =>
            Returned /\ ret.val.duration_h = 0 /\ sessions = <<ret.val>>
    /\ ret.op = "get_distance" /\ ret.arg.duration_h = 0 => Returned
    /\ ret.op = "get_mean_speed" /\ ret.arg.duration_h = 0 =>
            RaisedOnly("ZeroDivisionError") /\ ret.about = "get_mean_speed"
    /\ ret.op = "show_training_info" /\ ret.arg.duration_h = 0 =>
            /\ RaisedOnly("ZeroDivisionError")
            /\ ret.about = "get_mean_speed"
            /\ reports = <<>>

C9_Witness ==
    /\ ret.op = "show_training_info"
    /\ ret.arg.cls = "Swimming"
    /\ ret.arg.duration_h = 0
    /\ RaisedOnly("ZeroDivisionError")

=============================================================================
